---- MODULE Spec2Model ----
(***************************************************************************)
(* Model of src/non_RL_algos/loadBalance.py: the load-balance baseline     *)
(* driver main(), the placement and schedule builders, and the copy of the *)
(* input files into the results directory.                                 *)
(*                                                                         *)
(* Python values are modelled as follows.                                  *)
(*   - a list is a sequence;                                               *)
(*   - a dict is a function whose domain is the set of its keys            *)
(*     (EmptyDict, Put, Get);                                              *)
(*   - an optional int (args.seed) is <<>> for None and <<v>> for v;       *)
(*   - a float probability is an exact fraction [num, den];                *)
(*   - a path is [dir, stem, ext]; a file name is <<stem, ext>>.           *)
(***************************************************************************)
EXTENDS Integers, Sequences, FiniteSets, TLC

VARIABLES
    pc,            \* position of main(): the statement to execute next
    args,          \* the argparse namespace (args.seed is rewritten by main)
    seedArg,       \* history: the --seed value as parsed (<<>> when absent)
    logFile,       \* filename handed to logging.basicConfig (<<>> before)
    results_dir,   \* the results_dir local of main (<<>> before)
    simTestDir,    \* test_dir given to the Simulator constructor (<<>> before)
    network,       \* simulator.network: sequence of [id, type] graph nodes
    init_state,    \* snapshot returned by simulator.init
    initSeeds,     \* history: the seed of every simulator.init call made
    nodes_list,    \* locals of main / arguments of the builders
    sf_list,
    sfc_list,
    ingress_nodes,
    placement,
    schedule,
    action,        \* the SimulatorAction local of main
    i,             \* number of loop iterations of line 150 completed
    applyLog,      \* history: the action of every simulator.apply call made
    files,         \* files written by copyfile: destination path -> source
    copyCalls,     \* history: number of copyfile calls made
    summary,       \* create_input_file calls: <<>> or <<[dir, num, algo]>>
    failedIn       \* "none", or the call whose exception ended the run

vars == <<pc, args, seedArg, logFile, results_dir, simTestDir, network,
          init_state, initSeeds, nodes_list, sf_list, sfc_list, ingress_nodes,
          placement, schedule, action, i, applyLog, files, copyCalls, summary,
          failedIn>>

(***************************************************************************)
(* Bounds of the model.                                                    *)
(***************************************************************************)
MaxNodes == 2   \* nodes of the network reported to the driver
MaxIter == 2    \* largest --iterations value
MaxLen == 2     \* length of the lists handed to the builders on their own

NodeNames == <<"n1", "n2", "n3", "n4">>
NodeIds == {NodeNames[k] : k \in 1..MaxNodes}
SfIds == {"f1", "f2"}
SfcIds == {"c1", "c2"}
NodeTypes == {"Ingress", "Normal"}

(***************************************************************************)
(* Python helpers.                                                         *)
(***************************************************************************)
EmptyDict == <<>>

Put(d, k, v) == [x \in (DOMAIN d) \cup {k} |-> IF x = k THEN v ELSE d[x]]

Get(d, k, default) == IF k \in DOMAIN d THEN d[k] ELSE default

SeqsUpTo(S, n) == UNION {[1..m -> S] : m \in 0..n}

Distinct(s) == \A a, b \in DOMAIN s : a # b => s[a] # s[b]

Elems(s) == {s[k] : k \in DOMAIN s}

\* len(range(n)): the number of iterations of "for i in range(n)"
RangeLenOffByOne(n) == IF n >= 0 THEN n + 1 ELSE 0

RangeLenDoWhile(n) == IF n > 1 THEN n ELSE 1

RangeLen(n) == IF n > 0 THEN n ELSE 0

\* Python truthiness of an optional int: None and 0 are falsy
Truthy(opt) == opt # <<>> /\ opt[1] # 0

\* random.randint(1, 9999); the model samples both ends of the range
RandLo == 1
RandHi == 9999
RandInts == {RandLo, RandHi}

\* the module-level DATETIME string, computed once at import
DATETIME == "2020-01-01_00-00-00"

CWD == "cwd"

ProjectRoot == "root"

Basename(p) == <<p.stem, p.ext>>

\* os.path.splitext(name)[0]
Stem(name) == name[1]

\* os.path.abspath of a path relative to the working directory
Abspath(p) == [p EXCEPT !.dir = <<CWD, p.dir>>]

(***************************************************************************)
(* normalize_scheduling_probabilities (common.common_functionalities) is   *)
(* not part of the sources at hand; it is modelled from its contract: a    *)
(* list of n zero weights becomes n values, each 1/n.                      *)
(***************************************************************************)
normalize_scheduling_probabilities(input_list) ==
    [k \in 1..Len(input_list) |-> [num |-> 1, den |-> Len(input_list)]]

\* [0 for _ in range(len(nodes_list))]
ZeroList(n) == [k \in 1..n |-> 0]

(***************************************************************************)
(* get_placement: for node in nodes_list: placement[node] = sf_list        *)
(***************************************************************************)
RECURSIVE PlacementLoop(_, _, _)
PlacementLoop(rest, sfs, acc) ==
    IF rest = <<>> THEN acc
    ELSE PlacementLoop(Tail(rest), sfs, Put(acc, Head(rest), sfs))

get_placementDropLast(nodes, sfs) ==
    PlacementLoop(nodes, IF sfs = <<>> THEN sfs ELSE SubSeq(sfs, 1, Len(sfs) - 1),
                  EmptyDict)

get_placement(nodes, sfs) == PlacementLoop(nodes, sfs, EmptyDict)

(***************************************************************************)
(* get_schedule.  The four nested defaultdicts create a level only when a  *)
(* leaf below it is assigned; the loops are unrolled as recursions over    *)
(* the lists, innermost first.                                             *)
(***************************************************************************)
\* for inner_node in nodes_list: leaf[inner_node] = uniform_prob_list.pop()
RECURSIVE InnerLoopSkipLast(_, _, _)
InnerLoopSkipLast(rest, probs, leaf) ==
    IF Len(rest) <= 1 THEN leaf
    ELSE InnerLoopSkipLast(Tail(rest), SubSeq(probs, 1, Len(probs) - 1),
                           Put(leaf, Head(rest), probs[Len(probs)]))

RECURSIVE InnerLoop(_, _, _)
InnerLoop(rest, probs, leaf) ==
    IF rest = <<>> THEN leaf
    ELSE InnerLoop(Tail(rest), SubSeq(probs, 1, Len(probs) - 1),
                   Put(leaf, Head(rest), probs[Len(probs)]))

\* the assignments of one (outer_node, sfc, sf) round, lines 98-102
AssignLeaf(sched, outer, sfc, sf, nodes) ==
    LET byOuter == Get(sched, outer, EmptyDict)
        bySfc == Get(byOuter, sfc, EmptyDict)
        leaf == Get(bySfc, sf, EmptyDict)
        probs == normalize_scheduling_probabilities(ZeroList(Len(nodes)))
        newLeaf == InnerLoop(nodes, probs, leaf)
    IN  Put(sched, outer, Put(byOuter, sfc, Put(bySfc, sf, newLeaf)))

\* for sf in sf_list
RECURSIVE SfLoop(_, _, _, _, _)
SfLoop(sched, outer, sfc, rest, nodes) ==
    IF rest = <<>> THEN sched
    ELSE SfLoop(AssignLeaf(sched, outer, sfc, Head(rest), nodes),
                outer, sfc, Tail(rest), nodes)

\* for sfc in sfc_list
RECURSIVE SfcLoop(_, _, _, _, _)
SfcLoop(sched, outer, rest, sfs, nodes) ==
    IF rest = <<>> THEN sched
    ELSE SfcLoop(SfLoop(sched, outer, Head(rest), sfs, nodes),
                 outer, Tail(rest), sfs, nodes)

\* for outer_node in nodes_list
RECURSIVE OuterLoop(_, _, _, _, _)
OuterLoop(sched, rest, sfcs, sfs, nodes) ==
    IF rest = <<>> THEN sched
    ELSE OuterLoop(SfcLoop(sched, Head(rest), sfcs, sfs, nodes),
                   Tail(rest), sfcs, sfs, nodes)

get_schedule(nodes, sfs, sfcs) == OuterLoop(EmptyDict, nodes, sfcs, sfs, nodes)

SimulatorAction(p, s) == [placement |-> p, schedule |-> s]

(***************************************************************************)
(* get_ingress_nodes: the ids of the graph nodes whose type is "Ingress"   *)
(***************************************************************************)
RECURSIVE get_ingress_nodes(_)
get_ingress_nodes(net) ==
    IF net = <<>> THEN <<>>
    ELSE IF Head(net).type = "Ingress"
         THEN <<Head(net).id>> \o get_ingress_nodes(Tail(net))
         ELSE get_ingress_nodes(Tail(net))

(***************************************************************************)
(* copy_input_files: three copyfile calls into target_dir, in order; a     *)
(* copyfile to an existing destination overwrites it.  done is the number  *)
(* of copyfile calls that returned (3 unless one of them raised).          *)
(***************************************************************************)
NewPath(target_dir, path) == [dir |-> target_dir, name |-> Basename(path)]

RECURSIVE CopyLoop(_, _, _, _)
CopyLoop(fs, target_dir, srcs, done) ==
    IF done = 0 \/ srcs = <<>> THEN fs
    ELSE CopyLoop(Put(fs, NewPath(target_dir, Head(srcs)), Head(srcs)),
                  target_dir, Tail(srcs), done - 1)

copy_input_files(fs, target_dir, network_path, service_path, sim_config_path, done) ==
    CopyLoop(fs, target_dir, <<network_path, service_path, sim_config_path>>, done)

\* "logs/{}_{}_{}.log".format(os.path.basename(args.network), DATETIME, args.seed)
LogFileName(a) == <<"logs", Basename(a.network), DATETIME, a.seed[1]>>

\* results/<network stem>/<sf stem>/<config stem>/<DATETIME>_seed<seed>
ResultsDirStale(a) ==
    <<ProjectRoot, "results", Stem(Basename(a.network)),
      Stem(Basename(a.service_functions)), Stem(Basename(a.config)),
      DATETIME, 0>>

ResultsDir(a) ==
    <<ProjectRoot, "results", Stem(Basename(a.network)),
      Stem(Basename(a.service_functions)), Stem(Basename(a.config)),
      DATETIME, a.seed[1]>>

\* an exception nobody catches ends main()
RaiseRetry(at) == at

Raise(at) == "failed"

\* the loop of line 150 is left once range(args.iterations) is exhausted
LoopFinishedEarly(done, n) == done >= RangeLen(n) - 1

LoopFinished(done, n) == done >= RangeLen(n)

(***************************************************************************)
(* Inputs: what parse_args can return and what the simulator can report.   *)
(***************************************************************************)
\* three files, two of them with the same name in different directories
InputPaths == {[dir |-> "a", stem |-> "net", ext |-> "graphml"],
               [dir |-> "a", stem |-> "cfg", ext |-> "yaml"],
               [dir |-> "b", stem |-> "cfg", ext |-> "yaml"]}

SeedArgs == {<<>>} \cup {<<v>> : v \in -1..1}

ArgSets == [iterations : -1..MaxIter, seed : SeedArgs, network : InputPaths,
            service_functions : InputPaths, config : InputPaths]

\* a graph has one node per id; the ids are interchangeable, so the k-th
\* node reported is the one named NodeNames[k]
Networks == {net \in SeqsUpTo([id : NodeIds, type : NodeTypes], MaxNodes) :
                \A k \in DOMAIN net : net[k].id = NodeNames[k]}

\* the keys of the service_functions and sfcs mappings, in insertion order
SfKeyLists == {<<"f1">>, <<"f1", "f2">>}
SfcKeyLists == {<<"c1">>}

NoState == [nodes |-> <<>>, service_functions |-> <<>>, sfcs |-> <<>>]

Init ==
    /\ pc = "seed"
    /\ args \in ArgSets
    /\ seedArg = args.seed
    /\ logFile = <<>>
    /\ results_dir = <<>>
    /\ simTestDir = <<>>
    /\ network = <<>>
    /\ init_state = NoState
    /\ initSeeds = <<>>
    /\ nodes_list = <<>>
    /\ sf_list = <<>>
    /\ sfc_list = <<>>
    /\ ingress_nodes = <<>>
    /\ placement = EmptyDict
    /\ schedule = EmptyDict
    /\ action = SimulatorAction(EmptyDict, EmptyDict)
    /\ i = 0
    /\ applyLog = <<>>
    /\ files = EmptyDict
    /\ copyCalls = 0
    /\ summary = <<>>
    /\ failedIn = "none"

(***************************************************************************)
(* main(), one action per statement group.                                 *)
(***************************************************************************)
\* lines 119-120, the seed was given and is truthy
KeepSeed ==
    /\ pc = "seed"
    /\ Truthy(args.seed)
    /\ pc' = "logging"
    /\ UNCHANGED <<args, seedArg, logFile, results_dir, simTestDir, network,
                   init_state, initSeeds, nodes_list, sf_list, sfc_list,
                   ingress_nodes, placement, schedule, action, i, applyLog,
                   files, copyCalls, summary, failedIn>>

\* lines 119-120, "not args.seed": args.seed = random.randint(1, 9999)
DrawSeed ==
    /\ pc = "seed"
    /\ ~Truthy(args.seed)
    /\ \E r \in RandInts : args' = [args EXCEPT !.seed = <<r>>]
    /\ pc' = "logging"
    /\ UNCHANGED <<seedArg, logFile, results_dir, simTestDir, network,
                   init_state, initSeeds, nodes_list, sf_list, sfc_list,
                   ingress_nodes, placement, schedule, action, i, applyLog,
                   files, copyCalls, summary, failedIn>>

\* lines 121-124
SetupLogging ==
    /\ pc = "logging"
    /\ logFile' = LogFileName(args)
    /\ pc' = "resdir"
    /\ UNCHANGED <<args, seedArg, results_dir, simTestDir, network,
                   init_state, initSeeds, nodes_list, sf_list, sfc_list,
                   ingress_nodes, placement, schedule, action, i, applyLog,
                   files, copyCalls, summary, failedIn>>

\* lines 127-132
BuildResultsDir ==
    /\ pc = "resdir"
    /\ results_dir' = ResultsDir(args)
    /\ pc' = "create"
    /\ UNCHANGED <<args, seedArg, logFile, simTestDir, network,
                   init_state, initSeeds, nodes_list, sf_list, sfc_list,
                   ingress_nodes, placement, schedule, action, i, applyLog,
                   files, copyCalls, summary, failedIn>>

\* lines 135-137: Simulator(..., test_mode=True, test_dir=results_dir)
CreateSimulator ==
    /\ pc = "create"
    /\ simTestDir' = results_dir
    /\ pc' = "init"
    /\ UNCHANGED <<args, seedArg, logFile, results_dir, network,
                   init_state, initSeeds, nodes_list, sf_list, sfc_list,
                   ingress_nodes, placement, schedule, action, i, applyLog,
                   files, copyCalls, summary, failedIn>>

\* lines 135-137, the constructor raises
CreateSimulatorFail ==
    /\ pc = "create"
    /\ pc' = Raise(pc)
    /\ failedIn' = "create"
    /\ UNCHANGED <<args, seedArg, logFile, results_dir, simTestDir, network,
                   init_state, initSeeds, nodes_list, sf_list, sfc_list,
                   ingress_nodes, placement, schedule, action, i, applyLog,
                   files, copyCalls, summary>>

\* lines 138-139: simulator.init(args.seed) returns a snapshot
SimInit ==
    /\ pc = "init"
    /\ initSeeds' = Append(initSeeds, args.seed[1])
    /\ \E net \in Networks, sfs \in SfKeyLists, sfcs \in SfcKeyLists :
          /\ network' = net
          /\ init_state' = [nodes |-> net, service_functions |-> sfs,
                            sfcs |-> sfcs]
    /\ pc' = "derive"
    /\ UNCHANGED <<args, seedArg, logFile, results_dir, simTestDir,
                   nodes_list, sf_list, sfc_list,
                   ingress_nodes, placement, schedule, action, i, applyLog,
                   files, copyCalls, summary, failedIn>>

\* line 138, simulator.init raises
SimInitFail ==
    /\ pc = "init"
    /\ initSeeds' = Append(initSeeds, args.seed[1])
    /\ pc' = Raise(pc)
    /\ failedIn' = "init"
    /\ UNCHANGED <<args, seedArg, logFile, results_dir, simTestDir, network,
                   init_state, nodes_list, sf_list, sfc_list,
                   ingress_nodes, placement, schedule, action, i, applyLog,
                   files, copyCalls, summary>>

\* lines 140-143
DeriveLists ==
    /\ pc = "derive"
    /\ nodes_list' = [k \in DOMAIN init_state.nodes |-> init_state.nodes[k].id]
    /\ sf_list' = init_state.service_functions
    /\ sfc_list' = init_state.sfcs
    /\ ingress_nodes' = get_ingress_nodes(network)
    /\ pc' = "build"
    /\ UNCHANGED <<args, seedArg, logFile, results_dir, simTestDir, network,
                   init_state, initSeeds,
                   placement, schedule, action, i, applyLog,
                   files, copyCalls, summary, failedIn>>

\* lines 145-148
BuildAction ==
    /\ pc = "build"
    /\ placement' = get_placement(nodes_list, sf_list)
    /\ schedule' = get_schedule(nodes_list, sf_list, sfc_list)
    /\ action' = SimulatorAction(placement', schedule')
    /\ pc' = "loop"
    /\ UNCHANGED <<args, seedArg, logFile, results_dir, simTestDir, network,
                   init_state, initSeeds, nodes_list, sf_list, sfc_list,
                   ingress_nodes, i, applyLog,
                   files, copyCalls, summary, failedIn>>

\* lines 150-152, one iteration: simulator.apply(action) returns
Apply ==
    /\ pc = "loop"
    /\ ~LoopFinished(i, args.iterations)
    /\ applyLog' = Append(applyLog, action)
    /\ i' = i + 1
    /\ UNCHANGED <<pc, args, seedArg, logFile, results_dir, simTestDir, network,
                   init_state, initSeeds, nodes_list, sf_list, sfc_list,
                   ingress_nodes, placement, schedule, action,
                   files, copyCalls, summary, failedIn>>

\* line 151, simulator.apply(action) raises
ApplyFail ==
    /\ pc = "loop"
    /\ ~LoopFinished(i, args.iterations)
    /\ applyLog' = Append(applyLog, action)
    /\ pc' = Raise(pc)
    /\ failedIn' = "apply"
    /\ UNCHANGED <<args, seedArg, logFile, results_dir, simTestDir, network,
                   init_state, initSeeds, nodes_list, sf_list, sfc_list,
                   ingress_nodes, placement, schedule, action, i,
                   files, copyCalls, summary>>

\* line 150, range(args.iterations) is exhausted
LoopExit ==
    /\ pc = "loop"
    /\ LoopFinished(i, args.iterations)
    /\ pc' = "copy"
    /\ UNCHANGED <<args, seedArg, logFile, results_dir, simTestDir, network,
                   init_state, initSeeds, nodes_list, sf_list, sfc_list,
                   ingress_nodes, placement, schedule, action, i, applyLog,
                   files, copyCalls, summary, failedIn>>

\* lines 153-154 and 17-26, all three copies succeed
CopyInputFiles ==
    /\ pc = "copy"
    /\ files' = copy_input_files(files, results_dir, Abspath(args.network),
                                 Abspath(args.service_functions),
                                 Abspath(args.config), 3)
    /\ copyCalls' = copyCalls + 3
    /\ pc' = "summary"
    /\ UNCHANGED <<args, seedArg, logFile, results_dir, simTestDir, network,
                   init_state, initSeeds, nodes_list, sf_list, sfc_list,
                   ingress_nodes, placement, schedule, action, i, applyLog,
                   summary, failedIn>>

\* lines 24-26, the copyfile call number done + 1 raises
CopyInputFilesFail ==
    /\ pc = "copy"
    /\ \E done \in 0..2 :
          /\ files' = copy_input_files(files, results_dir, Abspath(args.network),
                                       Abspath(args.service_functions),
                                       Abspath(args.config), done)
          /\ copyCalls' = copyCalls + done + 1
    /\ pc' = Raise(pc)
    /\ failedIn' = "copy"
    /\ UNCHANGED <<args, seedArg, logFile, results_dir, simTestDir, network,
                   init_state, initSeeds, nodes_list, sf_list, sfc_list,
                   ingress_nodes, placement, schedule, action, i, applyLog,
                   summary>>

\* line 155: create_input_file(results_dir, len(ingress_nodes), "LoadBalance")
CreateInputFile ==
    /\ pc = "summary"
    /\ summary' = Append(summary, [dir |-> results_dir,
                                   num_ingress |-> Len(ingress_nodes),
                                   algo |-> "LoadBalance"])
    /\ pc' = "done"
    /\ UNCHANGED <<args, seedArg, logFile, results_dir, simTestDir, network,
                   init_state, initSeeds, nodes_list, sf_list, sfc_list,
                   ingress_nodes, placement, schedule, action, i, applyLog,
                   files, copyCalls, failedIn>>

Next ==
    \/ KeepSeed
    \/ DrawSeed
    \/ SetupLogging
    \/ BuildResultsDir
    \/ CreateSimulator
    \/ CreateSimulatorFail
    \/ SimInit
    \/ SimInitFail
    \/ DeriveLists
    \/ BuildAction
    \/ Apply
    \/ ApplyFail
    \/ LoopExit
    \/ CopyInputFiles
    \/ CopyInputFilesFail
    \/ CreateInputFile

Spec == Init /\ [][Next]_vars

(***************************************************************************)
(* The builders on their own: get_placement and get_schedule applied to    *)
(* arbitrary lists, repeated ids and empty lists included.                 *)
(***************************************************************************)
BuilderArgs == CHOOSE a \in ArgSets : a.iterations = 0 /\ a.seed = <<RandLo>>

InitBuilders ==
    /\ pc = "build"
    /\ args = BuilderArgs
    /\ seedArg = args.seed
    /\ logFile = <<>>
    /\ results_dir = <<>>
    /\ simTestDir = <<>>
    /\ network = <<>>
    /\ init_state = NoState
    /\ initSeeds = <<>>
    /\ nodes_list \in SeqsUpTo(NodeIds, MaxLen)
    /\ sf_list \in SeqsUpTo(SfIds, MaxLen)
    /\ sfc_list \in SeqsUpTo(SfcIds, MaxLen)
    /\ ingress_nodes = <<>>
    /\ placement = EmptyDict
    /\ schedule = EmptyDict
    /\ action = SimulatorAction(EmptyDict, EmptyDict)
    /\ i = 0
    /\ applyLog = <<>>
    /\ files = EmptyDict
    /\ copyCalls = 0
    /\ summary = <<>>
    /\ failedIn = "none"

NextBuilders == BuildAction

SpecBuilders == InitBuilders /\ [][NextBuilders]_vars

(***************************************************************************)
(* Properties.                                                             *)
(***************************************************************************)
AfterBuild == pc \in {"loop", "copy", "summary", "done"}

\* the number of apply calls --iterations asks for
RequestedApplies == IF args.iterations > 0 THEN args.iterations ELSE 0

InputFiles == {Abspath(args.network), Abspath(args.service_functions),
               Abspath(args.config)}

Uniform(n) == [num |-> 1, den |-> n]

RECURSIVE SumNums(_, _)
SumNums(leaf, keys) ==
    IF keys = {} THEN 0
    ELSE LET k == CHOOSE x \in keys : TRUE
         IN  leaf[k].num + SumNums(leaf, keys \ {k})

Leaves(s) ==
    UNION {UNION {{<<o, c, f>> : f \in DOMAIN s[o][c]} : c \in DOMAIN s[o]} :
           o \in DOMAIN s}

\* C1: in a run that completes, for --iterations N >= 0, simulator.apply was
\* called exactly N times, every call received the same action, and that
\* action is the one built once from the derived lists, never changed since.
C1_ApplyExactlyNTimesSameAction ==
    /\ \A k \in DOMAIN applyLog : applyLog[k] = applyLog[1] /\ applyLog[k] = action
    /\ AfterBuild =>
          action = SimulatorAction(get_placement(nodes_list, sf_list),
                                   get_schedule(nodes_list, sf_list, sfc_list))
    /\ (pc = "done" /\ args.iterations >= 0) => Len(applyLog) = args.iterations

C1_Witness ==
    /\ pc = "done"
    /\ args.iterations = 2
    /\ Len(applyLog) = 2
    /\ DOMAIN action.schedule # {}

\* C2: INIT, then APPLY x N, then FINALIZE: simulator.init is called at most
\* once and has returned before any apply call; copyfile and
\* create_input_file run only once all requested apply calls have been made,
\* and the number of apply calls never exceeds that afterwards.
C2_InitApplyFinalizeOrder ==
    /\ Len(initSeeds) <= 1
    /\ applyLog # <<>> => Len(initSeeds) = 1 /\ failedIn # "init"
    /\ Len(applyLog) <= RequestedApplies
    /\ (copyCalls > 0 \/ summary # <<>> \/ pc \in {"copy", "summary", "done"}) =>
          /\ Len(initSeeds) = 1
          /\ Len(applyLog) = RequestedApplies
          /\ failedIn \notin {"create", "init", "apply"}
    /\ summary # <<>> => copyCalls = 3

C2_Witness ==
    /\ pc = "done"
    /\ Len(applyLog) = 2
    /\ copyCalls = 3
    /\ summary # <<>>

\* C3: when the Simulator constructor, simulator.init or simulator.apply
\* raises, the run is over: main() is in its failed state, nothing has been
\* copied and no summary written, and from then on no further init or apply
\* call is made and no file is written.
C3_SimulatorErrorIsFatal ==
    [][/\ failedIn' \in {"create", "init", "apply"} =>
             /\ pc' = "failed"
             /\ DOMAIN files' = {}
             /\ summary' = <<>>
             /\ copyCalls' = 0
       /\ failedIn \in {"create", "init", "apply"} =>
             UNCHANGED <<initSeeds, applyLog, files, summary, copyCalls>>]_vars

C3_Witness ==
    /\ failedIn = "apply"
    /\ pc = "failed"
    /\ Len(applyLog) = 2
    /\ args.iterations = 2

\* C4 (as claimed): every seed supplied with --seed, 0 and negative values
\* included, is the seed passed to simulator.init.
C4_ExplicitSeedIsPassed ==
    \A k \in DOMAIN initSeeds : seedArg # <<>> => initSeeds[k] = seedArg[1]

\* C5 (as claimed): no simulator.apply call is made with an action built
\* from an empty node list.
C5_NoApplyWithoutNodes ==
    applyLog # <<>> => nodes_list # <<>>

\* C6 (as claimed): for any lists, every (node, chain, function) leaf of the
\* schedule has len(nodes) entries, each 1/len(nodes), summing to 1, and
\* there are |nodes| x |chains| x |functions| leaves.
C6_ScheduleUniformAnyLists ==
    pc = "loop" =>
        LET n == Len(nodes_list) IN
        /\ \A o \in Elems(nodes_list), c \in Elems(sfc_list), f \in Elems(sf_list) :
              /\ <<o, c, f>> \in Leaves(schedule)
              /\ Cardinality(DOMAIN schedule[o][c][f]) = n
              /\ \A d \in DOMAIN schedule[o][c][f] : schedule[o][c][f][d] = Uniform(n)
              /\ SumNums(schedule[o][c][f], DOMAIN schedule[o][c][f]) = n
        /\ Cardinality(Leaves(schedule)) = n * Len(sfc_list) * Len(sf_list)

\* C6 (amended): the same, for lists none of which repeats an id; the
\* destinations of every leaf are then exactly the nodes of the list.
C6_ScheduleUniformDistinctLists ==
    (pc = "loop" /\ Distinct(nodes_list) /\ Distinct(sf_list) /\ Distinct(sfc_list)) =>
        LET n == Len(nodes_list) IN
        /\ \A o \in Elems(nodes_list), c \in Elems(sfc_list), f \in Elems(sf_list) :
              /\ <<o, c, f>> \in Leaves(schedule)
              /\ DOMAIN schedule[o][c][f] = Elems(nodes_list)
              /\ Cardinality(DOMAIN schedule[o][c][f]) = n
              /\ \A d \in DOMAIN schedule[o][c][f] : schedule[o][c][f][d] = Uniform(n)
              /\ SumNums(schedule[o][c][f], DOMAIN schedule[o][c][f]) = n
        /\ Cardinality(Leaves(schedule)) = n * Len(sfc_list) * Len(sf_list)

C6_Witness ==
    /\ pc = "loop"
    /\ Len(nodes_list) = 2 /\ Distinct(nodes_list)
    /\ Len(sf_list) = 2 /\ Distinct(sf_list)
    /\ Len(sfc_list) = 2 /\ Distinct(sfc_list)
    /\ Cardinality(Leaves(schedule)) = 8

\* C7 (as claimed): for any node list, the placement has as many entries as
\* the list has nodes, and every node maps to the full function list.
C7_PlacementAnyList ==
    pc = "loop" =>
        /\ Cardinality(DOMAIN placement) = Len(nodes_list)
        /\ \A n \in Elems(nodes_list) :
              n \in DOMAIN placement /\ Elems(placement[n]) = Elems(sf_list)

\* C7 (amended): the same, for a node list that repeats no id.
C7_PlacementDistinctNodes ==
    (pc = "loop" /\ Distinct(nodes_list)) =>
        /\ Cardinality(DOMAIN placement) = Len(nodes_list)
        /\ \A n \in Elems(nodes_list) :
              n \in DOMAIN placement /\ Elems(placement[n]) = Elems(sf_list)

C7_Witness ==
    /\ pc = "loop"
    /\ Len(nodes_list) = 2 /\ Distinct(nodes_list)
    /\ Len(sf_list) = 2
    /\ Cardinality(DOMAIN placement) = 2

\* C8 (as claimed): after a successful run on three different input files
\* the results directory holds three copies, one per input file under its
\* own basename, and one summary made from the ingress-node count and
\* "LoadBalance".
C8_ThreeCopiesAndSummary ==
    (pc = "done" /\ Cardinality(InputFiles) = 3) =>
        /\ Cardinality(DOMAIN files) = 3
        /\ \A p \in InputFiles :
              /\ NewPath(results_dir, p) \in DOMAIN files
              /\ files[NewPath(results_dir, p)] = p
        /\ summary = <<[dir |-> results_dir,
                        num_ingress |-> Len(get_ingress_nodes(network)),
                        algo |-> "LoadBalance"]>>

\* C9: with --iterations 0 no simulator.apply call is ever made, the loop is
\* left at once, and the completed run has called simulator.init once, made
\* the three copies into the results directory and created the summary.
C9_ZeroIterationsStillFinalizes ==
    args.iterations = 0 =>
        /\ applyLog = <<>>
        /\ pc = "loop" => LoopFinished(i, args.iterations)
        /\ pc = "done" =>
              /\ Len(initSeeds) = 1
              /\ copyCalls = 3
              /\ \A p \in InputFiles : NewPath(results_dir, p) \in DOMAIN files
              /\ Len(summary) = 1

C9_Witness ==
    /\ pc = "done"
    /\ args.iterations = 0
    /\ applyLog = <<>>
    /\ DOMAIN files # {}
    /\ summary # <<>>

\* C10: once resolved, the seed is the same everywhere: in the log file
\* name, in the results directory (also the simulator's test_dir and the
\* directory of every copy and of the summary) and in simulator.init.
C10_OneSeedEverywhere ==
    /\ logFile # <<>> => logFile[4] = args.seed[1]
    /\ results_dir # <<>> => results_dir[7] = args.seed[1]
    /\ simTestDir # <<>> => simTestDir = results_dir
    /\ \A k \in DOMAIN initSeeds :
          /\ initSeeds[k] = args.seed[1]
          /\ logFile[4] = initSeeds[k]
          /\ simTestDir[7] = initSeeds[k]
    /\ \A f \in DOMAIN files : f.dir = results_dir /\ f.dir[7] = initSeeds[1]
    /\ \A k \in DOMAIN summary : summary[k].dir = simTestDir

C10_Witness ==
    /\ pc = "done"
    /\ seedArg = <<>>
    /\ args.seed[1] = RandHi
    /\ DOMAIN files # {}

====
